---- MODULE Spec2Model ----
(***************************************************************************)
(* State-machine model of the sales_coach backends.                        *)
(*                                                                         *)
(* Three backends live in the repository:                                  *)
(*   "pinecone"  src/unnamed/part_001 lines 289-869  (singleton agent,     *)
(*               custom retriever, default-knowledge seeding, ingestion)   *)
(*   "memory"    src/unnamed/part_001 lines 1-288    (singleton agent,     *)
(*               MemoryVectorStore built inside initChain)                 *)
(*   "app"       src/app/src/ask.ts + src/unnamed/part_000                 *)
(*               (askRoute builds a new SalesCoachAgent per request)       *)
(*                                                                         *)
(* Every `await` of the source is a yield point: an action is the code     *)
(* that runs from one await to the next.  External providers (embedding,   *)
(* vector store, language model) answer each call with success or failure. *)
(* Strings are sequences of one-character strings.  Embedding vectors are  *)
(* not represented (no code of the repository inspects them).              *)
(***************************************************************************)
EXTENDS Integers, Sequences, FiniteSets, TLC

VARIABLES
    backend,        \* which backend process is running
    env,            \* process.env and the disk: [apiKey, dataFile, nodeEnv]
    clientTexts,    \* the document texts clients may submit
    now,            \* the clock read by Date.now()
    instance,       \* SalesCoachAgent.instance is set
    chainPromise,   \* agent -> [st, err]: this.chainPromise of each agent
    initCount,      \* number of times initChain has been started
    task,           \* 0: checkAndInitializeKnowledge; 1..MaxReq: HTTP requests
    inflight,       \* external calls issued and not yet completed
    issued,         \* task -> number of external calls it has issued
    store,          \* the Pinecone index: a set of records, one per id
    uploads,        \* tasks whose multer temp file is on disk
    client          \* the browser page that asks for coaching suggestions

vars == <<backend, env, clientTexts, now, instance, chainPromise, initCount,
          task, inflight, issued, store, uploads, client>>

-----------------------------------------------------------------------------
(* Bounds *)

MaxReq == 1
MaxLocalReq == 2
MaxTime == 1

(* Program constants *)

BATCH_SIZE == 100
TOP_K == 5

MaxTasks == IF MaxReq >= MaxLocalReq THEN MaxReq ELSE MaxLocalReq

Tasks == 0..MaxTasks
Reqs == 1..MaxTasks

-----------------------------------------------------------------------------
(* JavaScript values of request-body fields *)

Undef == [t |-> "undefined", v |-> <<>>]
Str(s) == [t |-> "string", v |-> s]
Arr(a) == [t |-> "array", v |-> a]
File(s) == [t |-> "file", v |-> s]

\* JS truthiness: undefined and "" are falsy, arrays and objects are truthy
Truthy(x) ==
    CASE x.t = "undefined" -> FALSE
      [] x.t = "string" -> Len(x.v) > 0
      [] OTHER -> TRUE

isArray(x) == x.t = "array"

-----------------------------------------------------------------------------
(* String helpers *)

WS == {" ", "\n"}
DIGITS == {"0", "1", "2", "3", "4", "5", "6", "7", "8", "9"}

Min(S) == CHOOSE x \in S : \A y \in S : x <= y

RECURSIVE trimStart(_)
trimStart(s) == IF Len(s) > 0 /\ Head(s) \in WS THEN trimStart(Tail(s)) ELSE s

RECURSIVE trimEnd(_)
trimEnd(s) ==
    IF Len(s) > 0 /\ s[Len(s)] \in WS THEN trimEnd(SubSeq(s, 1, Len(s) - 1)) ELSE s

trim(s) == trimEnd(trimStart(s))

\* text.split("\n\n"): the separator is matched left to right without overlap,
\* so inside a run of newlines it starts at the run's 1st, 3rd, 5th ... character
sepStarts(s) ==
    {j \in 1..(Len(s) - 1) :
        /\ s[j] = "\n"
        /\ s[j + 1] = "\n"
        /\ LET before == {a \in 1..j : s[a] # "\n"}
               runStart == IF before = {} THEN 1
                           ELSE 1 + (CHOOSE a \in before : \A b \in before : b <= a)
           IN  (j - runStart) % 2 = 0}

split(s) ==
    LET seps == sepStarts(s)
        starts == {1} \cup {j + 2 : j \in seps}
        startOf(k) == CHOOSE a \in starts : Cardinality({b \in starts : b < a}) = k - 1
        endOf(a) == LET later == {j \in seps : j >= a}
                    IN  IF later = {} THEN Len(s) ELSE Min(later) - 1
    IN  [k \in 1..Cardinality(starts) |-> SubSeq(s, startOf(k), endOf(startOf(k)))]

\* number of consecutive characters of class C in s starting at position p
RECURSIVE runLen(_, _, _)
runLen(s, p, C) == IF p <= Len(s) /\ s[p] \in C THEN 1 + runLen(s, p + 1, C) ELSE 0

\* end (exclusive) of a match of /\d+\.\s+/ starting at p, or 0 when there is none
matchAt(s, p) ==
    LET d == runLen(s, p, DIGITS)
        w == runLen(s, p + d + 1, WS)
    IN  IF d > 0 /\ p + d <= Len(s) /\ s[p + d] = "." /\ w > 0
        THEN p + d + 1 + w ELSE 0

\* answer.split(/\d+\.\s+/)
RECURSIVE splitNumeric(_)
splitNumeric(s) ==
    LET hits == {p \in 1..Len(s) : matchAt(s, p) > 0}
    IN  IF hits = {} THEN <<s>>
        ELSE LET p == Min(hits)
             IN  <<SubSeq(s, 1, p - 1)>> \o splitNumeric(SubSeq(s, matchAt(s, p), Len(s)))

\* mutant: no filter
filterNothing(items) == items

\* items.filter(item => item.trim().length > 0)
RECURSIVE filterNonBlank(_)
filterNonBlank(items) ==
    IF items = <<>> THEN <<>>
    ELSE (IF Len(trim(Head(items))) > 0 THEN <<Head(items)>> ELSE <<>>)
         \o filterNonBlank(Tail(items))

\* the suggestions array of POST /coaching
parseSuggestions(answer) ==
    LET kept == filterNonBlank(splitNumeric(answer))
    IN  [k \in 1..Len(kept) |-> trim(kept[k])]

-----------------------------------------------------------------------------
(* Tasks *)

NoBody == [question |-> Undef, conversation |-> Undef, text |-> Undef,
           source |-> Undef, file |-> Undef, originalname |-> Undef]

NoResp == [status |-> 0, body |-> <<>>]

NoFailure == [op |-> "none", off |-> 0]

IdleTask ==
    [kind |-> "none", pc |-> "idle", body |-> NoBody,
     chunks |-> <<>>, i |-> 0, records |-> <<>>, sent |-> <<>>,
     matches |-> <<>>, docs |-> <<>>, retrFailed |-> FALSE, gen |-> "none", answer |-> <<>>,
     off |-> 0, failed |-> NoFailure, built |-> FALSE, resp |-> NoResp]

UnusedTask == [IdleTask EXCEPT !.pc = "unused"]

AskKinds == {"ask", "test", "coaching"}
IngestKinds == {"add", "upload"}

\* the routes each backend registers
Routes(b) ==
    CASE b = "app" -> {"ask"}
      [] b = "memory" -> AskKinds
      [] OTHER -> AskKinds \cup IngestKinds

\* the agent a request talks to: the singleton, or its own agent in "app"
AgentOf(t) == IF backend = "app" THEN t ELSE 0

Call(t, op, arg) == [by |-> t, op |-> op, arg |-> arg]

\* a provider call fails whenever the OpenAI credential is absent
Outcomes(op) ==
    IF op \in {"embed", "generate", "init_embed"} /\ ~env.apiKey
    THEN {"fail"} ELSE {"ok", "fail"}

\* an Error thrown by the code itself: message and stack, no code
JsError(msg) == [message |-> msg, stack |-> "Error: " \o msg]

\* the error a provider call rejects with: message, stack and the provider's code
ProviderError(op) ==
    [message |-> op \o " failed", stack |-> "Error: " \o op \o " failed",
     code |-> op \o "_error"]

\* the error fs.readFileSync throws
ReadError == [message |-> "read failed", stack |-> "Error: read failed",
              code |-> "EACCES"]

\* what the language model may answer
ModelTexts ==
    { <<"a", " ">>,
      <<"1", ".", " ", "a", " ", "2", ".", " ", "b">> }

-----------------------------------------------------------------------------
(* HTTP responses *)

Res400(msg) == [status |-> 400, body |-> [error |-> msg]]

\* res.status(500).json({error, message, stack}); JSON.stringify leaves out
\* a field whose value is undefined
Res500(err) ==
    IF backend = "app"
    THEN [status |-> 500, body |-> [error |-> "Internal Server Error"]]
    ELSE IF env.nodeEnv = "development"
    THEN [status |-> 500,
          body |-> [error |-> "Internal Server Error", message |-> err.message,
                    stack |-> err.stack]]
    ELSE [status |-> 500,
          body |-> [error |-> "Internal Server Error", message |-> err.message]]

ResAnswer(kind, answer) ==
    IF kind = "coaching"
    THEN [status |-> 200, body |-> [suggestions |-> parseSuggestions(answer)]]
    ELSE [status |-> 200, body |-> [answer |-> answer]]

ResAdded(n) ==
    [status |-> 200, body |-> [success |-> TRUE, message |-> <<n, "docs added">>]]

Finish(r, resp) == [r EXCEPT !.pc = "done", !.resp = resp]


-----------------------------------------------------------------------------
(* The agent: getInstance, constructor, initChain *)

NoError == JsError("")
Unsettled == [st |-> "none", err |-> NoError]
Pending == [st |-> "pending", err |-> NoError]
Resolved == [st |-> "resolved", err |-> NoError]
Rejected(err) == [st |-> "rejected", err |-> err]

\* mutant: getInstance without the `if (!SalesCoachAgent.instance)` test
createsAgentAlways(b, inst) == TRUE

\* getInstance creates the agent only when SalesCoachAgent.instance is unset;
\* the askRoute of the "app" backend runs `new SalesCoachAgent()` on every request
createsAgent(b, inst) == IF b = "app" THEN TRUE ELSE ~inst

\* initChain up to its first await (none in "pinecone") with the given
\* environment; llmOk: whether `new OpenAI(...)` accepts the configuration
initChain(b, e, llmOk) ==
    CASE b = "pinecone" ->
            IF llmOk THEN Resolved ELSE Rejected(JsError("OpenAI API key not found"))
      [] b = "memory" ->
            IF ~e.apiKey THEN Rejected(JsError("OPEN_API_KEY is not set in environment variables."))
            ELSE IF ~e.dataFile THEN Rejected(JsError("File not found"))
            ELSE Pending
      [] OTHER ->
            IF ~e.dataFile THEN Rejected(JsError("ENOENT"))
            ELSE IF ~e.apiKey THEN Rejected(JsError("OPEN_API_KEY is not set in environment variables."))
            ELSE Pending

\* the library constructor `new OpenAI` is given an undefined key when
\* OPEN_API_KEY is absent; whether it throws is the library's choice
LlmCtorOutcomes == IF env.apiKey THEN {TRUE} ELSE BOOLEAN

\* the five literals of initialKnowledge
initialKnowledge == << <<"K0">>, <<"K1">>, <<"K2">>, <<"K3">>, <<"K4">> >>

\* checkAndInitializeKnowledge up to its first await: retrieveKnowledge has
\* issued embedQuery("...") for the dummy query
SeedStarted == [IdleTask EXCEPT !.kind = "seed", !.pc = "know_embed"]

-----------------------------------------------------------------------------
(* Request validation *)

\* mutant: the route without its `if (!question)` test
questionUnchecked(body) == TRUE

questionOk(body) == Truthy(body.question)

\* mutant: the test without `conversation.length === 0`
conversationOkNoLength(body) ==
    /\ Truthy(body.conversation)
    /\ isArray(body.conversation)

conversationOk(body) ==
    /\ Truthy(body.conversation)
    /\ isArray(body.conversation)
    /\ Len(body.conversation.v) # 0

textOk(body) == Truthy(body.text)

fileOk(body) == body.file.t = "file"

Message == [speaker |-> "user", text |-> <<"h">>]

Bodies(kind) ==
    CASE kind \in {"ask", "test"} ->
            {[NoBody EXCEPT !.question = q] : q \in {Undef, Str(<<>>), Str(<<"q">>)}}
      [] kind = "coaching" ->
            {[NoBody EXCEPT !.conversation = c] :
                c \in {Undef, Str(<<"x">>), Arr(<<>>), Arr(<<Message>>)}}
      [] kind = "add" ->
            {[NoBody EXCEPT !.text = x, !.source = s] :
                x \in {Undef} \cup {Str(d) : d \in clientTexts},
                s \in {Undef, Str(<<"s">>), Str(<<"r">>)}}
      [] OTHER ->
            {NoBody} \cup
            {[NoBody EXCEPT !.file = File(d), !.originalname = Str(<<"f">>)] :
                d \in clientTexts}

\* requests are numbered in order of arrival
IsNext(t) ==
    /\ t \in Reqs
    /\ task[t].pc = "idle"
    /\ \A u \in Reqs : u < t => task[u].pc # "idle"

-----------------------------------------------------------------------------
(* POST /ask, POST /test, POST /coaching up to `await this.chainPromise` *)

AskArrive(t) ==
    /\ IsNext(t)
    /\ \E kind \in Routes(backend) \cap AskKinds : \E body \in Bodies(kind) :
       \E llmOk \in LlmCtorOutcomes :
        LET valid == IF kind = "coaching" THEN conversationOk(body) ELSE questionOk(body)
            build == valid /\ createsAgent(backend, instance)
            a == AgentOf(t)
            started == [IdleTask EXCEPT !.kind = kind, !.body = body]
            promise == initChain(backend, env, llmOk)
            seeding == build /\ backend = "pinecone"
            initCalls == IF build /\ promise.st = "pending"
                         THEN {Call(t, "init_embed", <<>>)} ELSE {}
            seedCalls == IF seeding THEN {Call(0, "embed", <<>>)} ELSE {}
        IN  /\ task' = [task EXCEPT
                  ![t] = IF valid
                         THEN [started EXCEPT !.pc = "chain", !.built = build]
                         ELSE Finish(started,
                                Res400(IF kind = "coaching"
                                       THEN "valid conversation data is required"
                                       ELSE "Missing 'question' in request body")),
                  ![0] = IF seeding THEN SeedStarted ELSE @]
            /\ instance' = (instance \/ (build /\ backend # "app"))
            /\ initCount' = initCount + (IF build THEN 1 ELSE 0)
            /\ chainPromise' = IF build THEN [chainPromise EXCEPT ![a] = promise]
                               ELSE chainPromise
            /\ inflight' = inflight \cup initCalls \cup seedCalls
            /\ issued' = [issued EXCEPT ![t] = @ + Cardinality(initCalls),
                                        ![0] = @ + Cardinality(seedCalls)]
    /\ UNCHANGED <<backend, env, clientTexts, now, store, uploads, client>>

\* a task completes call c, becomes r, and issues the calls of new
Step(t, c, r, new) ==
    /\ task' = [task EXCEPT ![t] = r]
    /\ inflight' = (inflight \ {c}) \cup new
    /\ issued' = [issued EXCEPT ![t] = @ + Cardinality(new)]

NoCall == Call(0, "none", <<>>)

\* an ask that awaited the end of checkAndInitializeKnowledge as well
chainAndSeedingSettled(t) ==
    /\ chainPromise[AgentOf(t)].st \in {"resolved", "rejected"}
    /\ task[0].pc \in {"idle", "done"}

\* what `await this.chainPromise` of ask waits for: the promise cached by the
\* constructor, and nothing of checkAndInitializeKnowledge
chainSettled(t) == chainPromise[AgentOf(t)].st \in {"resolved", "rejected"}

\* `const chain = await this.chainPromise` resumes; chain.call starts retrieval
AskResume(t) ==
    /\ t \in Reqs
    /\ task[t].pc = "chain"
    /\ chainSettled(t)
    /\ IF chainPromise[AgentOf(t)].st = "resolved"
       THEN Step(t, NoCall, [task[t] EXCEPT !.pc = "retr_embed"],
                 {Call(t, "embed", <<>>)})
       ELSE Step(t, NoCall, Finish(task[t], Res500(chainPromise[AgentOf(t)].err)), {})
    /\ UNCHANGED <<backend, env, clientTexts, now, instance, chainPromise,
                   initCount, store, uploads, client>>


-----------------------------------------------------------------------------
(* The custom retriever of the "pinecone" backend and the generation call *)

Cont(r, calls) == [task |-> r, calls |-> calls]

RECURSIVE take(_, _)
take(S, k) ==
    IF k = 0 \/ S = {} THEN <<>>
    ELSE LET x == CHOOSE y \in S : TRUE IN <<x>> \o take(S \ {x}, k - 1)

\* pineconeIndex.query({topK: 5, includeMetadata: true}).matches
queryMatches(index) == take(index, TOP_K)

\* a metadata object, and match.metadata?.name: undefined when the match has
\* no metadata or the metadata has no such field
Metadata(pageContent, source) ==
    [t |-> "object", v |-> [pageContent |-> pageContent, source |-> source]]

field(metadata, name) == IF metadata.t = "object" THEN metadata.v[name] ELSE Undef

\* String(x) of a truthy metadata value
String(x) == IF x.t = "string" THEN x.v ELSE <<"[object Object]">>

\* mutant: matches without pageContent are filtered out before the map
toDocumentsDropBare(matches) ==
    LET HasText(m) == Truthy(field(m.metadata, "pageContent"))
        kept == SelectSeq(matches, HasText)
    IN  [k \in 1..Len(kept) |->
            [pageContent |-> String(field(kept[k].metadata, "pageContent")),
             metadata |-> [source |-> IF Truthy(field(kept[k].metadata, "source"))
                                      THEN String(field(kept[k].metadata, "source"))
                                      ELSE <<"UNKNOWN">>]]]

\* results.matches.map(match => new Document(...)), with the two placeholders
toDocuments(matches) ==
    [k \in 1..Len(matches) |->
        [pageContent |-> IF Truthy(field(matches[k].metadata, "pageContent"))
                         THEN String(field(matches[k].metadata, "pageContent"))
                         ELSE <<"DEFAULT_CONTENT">>,
         metadata |-> [source |-> IF Truthy(field(matches[k].metadata, "source"))
                                  THEN String(field(matches[k].metadata, "source"))
                                  ELSE <<"UNKNOWN">>]]]

\* mutant: the route answers as soon as the generation call is issued
generateAndAnswer(t, r) ==
    Cont(Finish([r EXCEPT !.gen = "issued"], ResAnswer(r.kind, <<>>)),
         {Call(t, "generate", <<>>)})

\* the chain stuffs the documents into the prompt and calls the model
generate(t, r) == Cont([r EXCEPT !.pc = "generate", !.gen = "issued"],
                       {Call(t, "generate", <<>>)})

\* mutant: the retriever lets the error escape, and it reaches the route
retrieverRethrow(t, r) ==
    Cont(Finish([r EXCEPT !.retrFailed = TRUE], Res500(ProviderError("embed"))), {})

\* catch (error) { return []; } of getRelevantDocuments
retrieverCatch(t, r) == generate(t, [r EXCEPT !.docs = <<>>, !.retrFailed = TRUE])

\* `await embeddings.embedQuery(query)` of the retriever completes
RetrEmbedDone(t) ==
    /\ backend = "pinecone"
    /\ t \in Reqs
    /\ task[t].pc = "retr_embed"
    /\ Call(t, "embed", <<>>) \in inflight
    /\ \E out \in Outcomes("embed") :
        LET k == IF out = "ok"
                 THEN Cont([task[t] EXCEPT !.pc = "retr_query"], {Call(t, "query", <<>>)})
                 ELSE retrieverCatch(t, task[t])
        IN  Step(t, Call(t, "embed", <<>>), k.task, k.calls)
    /\ UNCHANGED <<backend, env, clientTexts, now, instance, chainPromise,
                   initCount, store, uploads, client>>

\* `await pineconeIndex.query(...)` of the retriever completes
RetrQueryDone(t) ==
    /\ t \in Reqs
    /\ task[t].pc = "retr_query"
    /\ Call(t, "query", <<>>) \in inflight
    /\ \E out \in Outcomes("query") :
        LET k == IF out = "ok"
                 THEN generate(t, [task[t] EXCEPT
                                     !.matches = queryMatches(store),
                                     !.docs = toDocuments(queryMatches(store))])
                 ELSE retrieverCatch(t, task[t])
        IN  Step(t, Call(t, "query", <<>>), k.task, k.calls)
    /\ UNCHANGED <<backend, env, clientTexts, now, instance, chainPromise,
                   initCount, store, uploads, client>>

\* mutant: the generation call is issued once more after it failed
generateFailedRetry(t, r) ==
    Cont([r EXCEPT !.gen = "fail"], {Call(t, "generate", <<"retry">>)})

\* a rejected chain.call: ask rethrows, and the route's catch answers 500
generateFailed(t, r) ==
    Cont(Finish([r EXCEPT !.gen = "fail"], Res500(ProviderError("generate"))), {})

\* `await chain.call({query})` completes; ask returns response.text and the
\* route answers, or the error reaches the route's catch
GenerateDone(t) ==
    /\ t \in Reqs
    /\ task[t].pc = "generate"
    /\ Call(t, "generate", <<>>) \in inflight
    /\ \E out \in Outcomes("generate") : \E text \in ModelTexts :
        LET r == IF out = "ok"
                 THEN Finish([task[t] EXCEPT !.gen = "ok", !.answer = text],
                             ResAnswer(task[t].kind, text))
                 ELSE generateFailed(t, task[t]).task
            new == IF out = "ok" THEN {} ELSE generateFailed(t, task[t]).calls
        IN  Step(t, Call(t, "generate", <<>>), r, new)
    /\ UNCHANGED <<backend, env, clientTexts, now, instance, chainPromise,
                   initCount, store, uploads, client>>

-----------------------------------------------------------------------------
(* Ingestion: chunk, embed each chunk, upsert in batches *)

\* mutant: `if (!chunk) continue;`, without the trim
skipEmptyChunk(chunk) == Len(chunk) = 0

\* if (!chunk.trim()) continue;
skipChunk(chunk) == Len(trim(chunk)) = 0

\* 0-based index of the next chunk the loop embeds, at or after j; the
\* seeding loop has no blank test
RECURSIVE nextIndex(_, _, _)
nextIndex(kind, chunks, j) ==
    IF j >= Len(chunks) THEN Len(chunks)
    ELSE IF kind # "seed" /\ skipChunk(chunks[j + 1]) THEN nextIndex(kind, chunks, j + 1)
    ELSE j

\* the record pushed for chunk i; tm is the value of Date.now()
mkRecord(kind, body, tm, i, chunk) ==
    LET id == CASE kind = "add" -> <<"manual", tm, i>>
                [] kind = "upload" -> <<"file", tm, i>>
                [] OTHER -> <<"default-knowledge", i>>
        label == CASE kind = "add" -> body.source
                   [] kind = "upload" -> body.originalname
                   [] OTHER -> Undef
    IN  [id |-> id,
         metadata |-> Metadata(Str(chunk), IF Truthy(label) THEN label ELSE Str(id))]

\* mutant: records.slice(i, i + BATCH_SIZE - 1)
batchOfShort(records, off) ==
    SubSeq(records, off + 1, Min({off + BATCH_SIZE - 1, Len(records)}))

\* records.slice(i, i + BATCH_SIZE)
batchOf(records, off) ==
    SubSeq(records, off + 1, Min({off + BATCH_SIZE, Len(records)}))

\* mutant: the upserts of all remaining batches issued together (Promise.all)
upsertsToIssueAll(records, off) ==
    {o \in off..(Len(records) - 1) : (o - off) % BATCH_SIZE = 0}

\* the loop `for (i; i < records.length; i += BATCH_SIZE) await upsert(batch)`
\* issues one upsert and waits for it: the offsets whose upsert is issued now
upsertsToIssue(records, off) == IF off < Len(records) THEN {off} ELSE {}

RECURSIVE batchesAt(_, _)
batchesAt(records, offs) ==
    IF offs = {} THEN <<>>
    ELSE <<batchOf(records, Min(offs))>> \o batchesAt(records, offs \ {Min(offs)})

\* the end of the handler: the success response (seeding only logs)
finishIngest(r) ==
    IF r.kind = "seed" THEN [r EXCEPT !.pc = "done"]
    ELSE Finish(r, ResAdded(Len(r.records)))

\* the handler's catch: 500 with error.message; seeding logs and returns
failIngest(r, err) ==
    IF r.kind = "seed" THEN [r EXCEPT !.pc = "done"]
    ELSE Finish(r, Res500(err))

\* the upsert loop from offset off on
upsertLoop(t, r, off) ==
    LET offs == upsertsToIssue(r.records, off)
    IN  IF offs = {} THEN Cont(finishIngest(r), {})
        ELSE Cont([r EXCEPT !.pc = "upsert", !.off = off,
                            !.sent = @ \o batchesAt(r.records, offs)],
                  {Call(t, "upsert", batchOf(r.records, o)) : o \in offs})

\* the embedding loop at index r.i
embedLoop(t, r) ==
    IF r.i < Len(r.chunks)
    THEN Cont([r EXCEPT !.pc = "embed"], {Call(t, "embed", <<>>)})
    ELSE upsertLoop(t, r, 0)

\* mutant: the rejection is caught inside the loop, which goes on
upsertFailedContinue(t, r) ==
    upsertLoop(t, [r EXCEPT !.failed = [op |-> "upsert", off |-> r.off]],
               r.off + BATCH_SIZE)

\* a rejected upsert leaves the loop through the catch
upsertFailed(t, r) ==
    Cont(failIngest([r EXCEPT !.failed = [op |-> "upsert", off |-> r.off]],
                    ProviderError("upsert")), {})

\* pineconeIndex.upsert(batch): a record replaces the stored one of the same id
upsert(index, batch) ==
    LET ids == {batch[k].id : k \in 1..Len(batch)}
    IN  {x \in index : x.id \notin ids} \cup {batch[k] : k \in 1..Len(batch)}

\* mutant: the rejection is caught inside the loop, which skips the chunk
embedFailedSkip(t, r) ==
    embedLoop(t, [r EXCEPT !.failed = [op |-> "embed", off |-> r.i],
                           !.i = nextIndex(r.kind, r.chunks, r.i + 1)])

\* a rejected embedQuery leaves the embedding loop through the catch, before
\* the upsert loop is reached
embedFailed(t, r) ==
    Cont(failIngest([r EXCEPT !.failed = [op |-> "embed", off |-> r.i]],
                    ProviderError("embed")), {})

\* `await embeddings.embedQuery(chunk)` completes in an ingestion loop
ChunkEmbedded(t) ==
    /\ task[t].pc = "embed"
    /\ Call(t, "embed", <<>>) \in inflight
    /\ \E out \in Outcomes("embed") : \E tm \in now..MaxTime :
        LET r == task[t]
            rec == mkRecord(r.kind, r.body, tm, r.i, r.chunks[r.i + 1])
            k == IF out = "ok"
                 THEN embedLoop(t, [r EXCEPT !.records = Append(@, rec),
                                             !.i = nextIndex(r.kind, r.chunks, r.i + 1)])
                 ELSE embedFailed(t, r)
        IN  /\ Step(t, Call(t, "embed", <<>>), k.task, k.calls)
            /\ now' = IF out = "ok" /\ r.kind # "seed" THEN tm ELSE now
    /\ UNCHANGED <<backend, env, clientTexts, instance, chainPromise,
                   initCount, store, uploads, client>>

\* `await pineconeIndex.upsert(batch)` completes in an ingestion loop
BatchUpserted(t) ==
    /\ task[t].pc = "upsert"
    /\ \E c \in inflight : \E out \in Outcomes("upsert") :
        /\ c.by = t
        /\ c.op = "upsert"
        /\ LET r == task[t]
               k == IF out = "ok" THEN upsertLoop(t, r, r.off + BATCH_SIZE)
                    ELSE upsertFailed(t, r)
           IN  /\ Step(t, c, k.task, k.calls)
               /\ store' = IF out = "ok" THEN upsert(store, c.arg) ELSE store
    /\ UNCHANGED <<backend, env, clientTexts, now, instance, chainPromise,
                   initCount, uploads, client>>


-----------------------------------------------------------------------------
(* POST /knowledge/add and POST /knowledge/upload *)

\* the handler up to its first await
KnowledgeAddArrive(t) ==
    /\ IsNext(t)
    /\ "add" \in Routes(backend)
    /\ \E body \in Bodies("add") :
        LET started == [IdleTask EXCEPT !.kind = "add", !.body = body]
            chunks == split(body.text.v)
            k == IF ~textOk(body)
                 THEN Cont(Finish(started, Res400("text is required")), {})
                 ELSE embedLoop(t, [started EXCEPT !.chunks = chunks,
                                                   !.i = nextIndex("add", chunks, 0)])
        IN  Step(t, NoCall, k.task, k.calls)
    /\ UNCHANGED <<backend, env, clientTexts, now, instance, chainPromise,
                   initCount, store, uploads, client>>

AddEmbedDone(t) == t \in Reqs /\ task[t].kind = "add" /\ ChunkEmbedded(t)

AddUpsertDone(t) == t \in Reqs /\ task[t].kind = "add" /\ BatchUpserted(t)

\* fs.unlinkSync(filePath)
unlinkSync(files, f) == files \ {f}

\* multer has stored the uploaded file; the handler reads it, deletes it and
\* runs to its first await.  readOk: whether fs.readFileSync succeeds
KnowledgeUploadArrive(t) ==
    /\ IsNext(t)
    /\ "upload" \in Routes(backend)
    /\ \E body \in Bodies("upload") : \E readOk \in BOOLEAN :
        LET started == [IdleTask EXCEPT !.kind = "upload", !.body = body]
            chunks == split(body.file.v)
            k == IF ~fileOk(body)
                 THEN Cont(Finish(started, Res400("file is required")), {})
                 ELSE IF ~readOk
                 THEN Cont(Finish(started, Res500(ReadError)), {})
                 ELSE embedLoop(t, [started EXCEPT !.chunks = chunks,
                                                   !.i = nextIndex("upload", chunks, 0)])
        IN  /\ Step(t, NoCall, k.task, k.calls)
            /\ uploads' = IF ~fileOk(body) THEN uploads
                          ELSE IF readOk THEN unlinkSync(uploads \cup {t}, t)
                          ELSE uploads \cup {t}
    /\ UNCHANGED <<backend, env, clientTexts, now, instance, chainPromise,
                   initCount, store, client>>

UploadEmbedDone(t) == t \in Reqs /\ task[t].kind = "upload" /\ ChunkEmbedded(t)

UploadUpsertDone(t) == t \in Reqs /\ task[t].kind = "upload" /\ BatchUpserted(t)

-----------------------------------------------------------------------------
(* checkAndInitializeKnowledge, started by the constructor (task 0) *)

\* initializeWithDefaultKnowledge up to its first await
initializeWithDefaultKnowledge(r) ==
    embedLoop(0, [r EXCEPT !.chunks = initialKnowledge, !.i = 0])

\* `await embeddingModel.embedQuery(...)` of retrieveKnowledge completes
KnowEmbedDone ==
    /\ task[0].pc = "know_embed"
    /\ Call(0, "embed", <<>>) \in inflight
    /\ \E out \in Outcomes("embed") :
        LET k == IF out = "ok"
                 THEN Cont([task[0] EXCEPT !.pc = "know_query"], {Call(0, "query", <<>>)})
                 ELSE initializeWithDefaultKnowledge(task[0])
        IN  Step(0, Call(0, "embed", <<>>), k.task, k.calls)
    /\ UNCHANGED <<backend, env, clientTexts, now, instance, chainPromise,
                   initCount, store, uploads, client>>

\* `await pineconeIndex.query(...)` of retrieveKnowledge completes
KnowQueryDone ==
    /\ task[0].pc = "know_query"
    /\ Call(0, "query", <<>>) \in inflight
    /\ \E out \in Outcomes("query") :
        LET docs == toDocuments(queryMatches(store))
            k == IF out = "ok" /\ Len(docs) # 0
                 THEN Cont([task[0] EXCEPT !.pc = "done", !.docs = docs,
                                           !.matches = queryMatches(store)], {})
                 ELSE initializeWithDefaultKnowledge(task[0])
        IN  Step(0, Call(0, "query", <<>>), k.task, k.calls)
    /\ UNCHANGED <<backend, env, clientTexts, now, instance, chainPromise,
                   initCount, store, uploads, client>>

SeedEmbedDone == task[0].kind = "seed" /\ ChunkEmbedded(0)

SeedUpsertDone == task[0].kind = "seed" /\ BatchUpserted(0)

-----------------------------------------------------------------------------
(* Specifications of the "pinecone" backend *)

\* documents clients submit: two paragraphs with a trailing separator, only
\* whitespace, a blank paragraph in the middle
SmallTexts ==
    { <<"a", "\n", "\n", "b", "\n", "\n">>,
      <<" ", "\n", "\n", "\n">>,
      <<"a", "\n", "\n", " ", "\n", "\n", "b">> }

\* n one-character paragraphs
bulkText(n) == [k \in 1..(3 * n - 2) |-> IF k % 3 = 1 THEN "a" ELSE "\n"]

BulkTexts ==
    {bulkText(BATCH_SIZE), bulkText(BATCH_SIZE + 1), bulkText(2 * BATCH_SIZE + 1)}

\* a record ingested before this process started
PriorRecord ==
    [id |-> <<"manual", -1, 0>>,
     metadata |-> Metadata(Str(<<"p">>), Str(<<"s">>))]

InitialStores == {{}, {PriorRecord}}

\* the page before it has asked for anything
NoClient == [pc |-> "none", pre |-> <<>>, bodies |-> <<>>, status |-> 0,
             suggestions |-> <<>>, result |-> <<>>, shown |-> <<>>]

InitServer(b, envs, texts, nReq, t0) ==
    /\ backend = b
    /\ env \in envs
    /\ clientTexts = texts
    /\ now = t0
    /\ instance = FALSE
    /\ chainPromise = [a \in Tasks |-> Unsettled]
    /\ initCount = 0
    /\ task = [t \in Tasks |-> IF t <= nReq THEN IdleTask ELSE UnusedTask]
    /\ inflight = {}
    /\ issued = [t \in Tasks |-> 0]
    /\ store \in (IF b = "pinecone" THEN InitialStores ELSE {{}})
    /\ uploads = {}

InitProcess(b, envs, texts, nReq, t0) ==
    /\ InitServer(b, envs, texts, nReq, t0)
    /\ client = NoClient

NodeEnvs == {"production", "development"}

PineconeEnvs ==
    {[apiKey |-> k, dataFile |-> TRUE, nodeEnv |-> n] : k \in BOOLEAN, n \in NodeEnvs}

Init == InitProcess("pinecone", PineconeEnvs, SmallTexts, MaxReq, MaxTime)

Next ==
    \/ \E t \in Reqs : AskArrive(t)
    \/ \E t \in Reqs : AskResume(t)
    \/ \E t \in Reqs : RetrEmbedDone(t)
    \/ \E t \in Reqs : RetrQueryDone(t)
    \/ \E t \in Reqs : GenerateDone(t)
    \/ \E t \in Reqs : KnowledgeAddArrive(t)
    \/ \E t \in Reqs : AddEmbedDone(t)
    \/ \E t \in Reqs : AddUpsertDone(t)
    \/ \E t \in Reqs : KnowledgeUploadArrive(t)
    \/ \E t \in Reqs : UploadEmbedDone(t)
    \/ \E t \in Reqs : UploadUpsertDone(t)
    \/ KnowEmbedDone
    \/ KnowQueryDone
    \/ SeedEmbedDone
    \/ SeedUpsertDone

Spec == Init /\ [][Next]_vars

\* one request that carries a bulk document.  The clock stands at its last
\* instant, so every Date.now() of the run returns the same value: the ids
\* play no part in how the records are batched
InitBatch == InitProcess("pinecone", PineconeEnvs, BulkTexts, 1, MaxTime)

SpecBatch == InitBatch /\ [][Next]_vars


\* two ingestion requests, one after the other or interleaved, with the clock
\* running: the agent is never built, so nothing else touches the store
IngestEnvs == {e \in PineconeEnvs : e.apiKey}

InitIngest == InitProcess("pinecone", IngestEnvs, SmallTexts, 2, 0)

NextIngest ==
    \/ \E t \in Reqs : KnowledgeAddArrive(t)
    \/ \E t \in Reqs : AddEmbedDone(t)
    \/ \E t \in Reqs : AddUpsertDone(t)
    \/ \E t \in Reqs : KnowledgeUploadArrive(t)
    \/ \E t \in Reqs : UploadEmbedDone(t)
    \/ \E t \in Reqs : UploadUpsertDone(t)

SpecIngest == InitIngest /\ [][NextIngest]_vars

\* records written to the index by other means: without text, without
\* source, with an empty text, without metadata, and two ordinary ones
ForeignRecords ==
    { [id |-> <<"ext", 1>>, metadata |-> Metadata(Undef, Str(<<"s">>))],
      [id |-> <<"ext", 2>>, metadata |-> Metadata(Str(<<"p">>), Undef)],
      [id |-> <<"ext", 3>>, metadata |-> Metadata(Str(<<>>), Str(<<"s">>))],
      [id |-> <<"ext", 4>>, metadata |-> Undef],
      [id |-> <<"ext", 5>>, metadata |-> Metadata(Str(<<"p">>), Str(<<"s">>))],
      [id |-> <<"ext", 6>>, metadata |-> Metadata(Str(<<"r">>), Str(<<"s">>))] }

\* one agent request against an index that holds any of these records
InitRetrieve ==
    /\ backend = "pinecone"
    /\ env \in {e \in IngestEnvs : e.nodeEnv = "production"}
    /\ clientTexts = {}
    /\ now = MaxTime
    /\ instance = FALSE
    /\ chainPromise = [a \in Tasks |-> Unsettled]
    /\ initCount = 0
    /\ task = [t \in Tasks |-> IF t <= 1 THEN IdleTask ELSE UnusedTask]
    /\ inflight = {}
    /\ issued = [t \in Tasks |-> 0]
    /\ store \in SUBSET (ForeignRecords \cup {PriorRecord})
    /\ uploads = {}
    /\ client = NoClient

NextRetrieve ==
    \/ \E t \in Reqs : AskArrive(t)
    \/ \E t \in Reqs : AskResume(t)
    \/ \E t \in Reqs : RetrEmbedDone(t)
    \/ \E t \in Reqs : RetrQueryDone(t)
    \/ \E t \in Reqs : GenerateDone(t)
    \/ KnowEmbedDone
    \/ KnowQueryDone
    \/ SeedEmbedDone
    \/ SeedUpsertDone

SpecRetrieve == InitRetrieve /\ [][NextRetrieve]_vars

\* one agent request, with the key present or absent, where every step that
\* can be taken is taken in the end: the event loop resumes every handler
\* whose awaited promise has settled, and every provider call settles
InitAnswer == InitProcess("pinecone", PineconeEnvs, {}, 1, MaxTime)

SpecAnswer == InitAnswer /\ [][NextRetrieve]_vars /\ WF_vars(NextRetrieve)

-----------------------------------------------------------------------------
(* The "memory" and "app" backends: initChain awaits                      *)
(* MemoryVectorStore.fromDocuments, and the chain uses the store's own     *)
(* retriever, whose embedding failure rejects chain.call                   *)

\* `await MemoryVectorStore.fromDocuments(docs, embeddings)` completes for
\* the agent that request t constructed
InitChainDone(t) ==
    /\ t \in Reqs
    /\ Call(t, "init_embed", <<>>) \in inflight
    /\ chainPromise[AgentOf(t)].st = "pending"
    /\ \E out \in Outcomes("init_embed") :
        chainPromise' = [chainPromise EXCEPT ![AgentOf(t)] =
                            IF out = "ok" THEN Resolved
                            ELSE Rejected(ProviderError("init_embed"))]
    /\ inflight' = inflight \ {Call(t, "init_embed", <<>>)}
    /\ UNCHANGED <<backend, env, clientTexts, now, instance, initCount, task,
                   issued, store, uploads, client>>

\* the retrieval step of chain.call completes
LocalRetrieveDone(t) ==
    /\ backend \in {"memory", "app"}
    /\ t \in Reqs
    /\ task[t].pc = "retr_embed"
    /\ Call(t, "embed", <<>>) \in inflight
    /\ \E out \in Outcomes("embed") :
        LET k == IF out = "ok" THEN generate(t, task[t])
                 ELSE Cont(Finish([task[t] EXCEPT !.retrFailed = TRUE],
                                  Res500(ProviderError("embed"))), {})
        IN  Step(t, Call(t, "embed", <<>>), k.task, k.calls)
    /\ UNCHANGED <<backend, env, clientTexts, now, instance, chainPromise,
                   initCount, store, uploads, client>>

LocalEnvs ==
    {[apiKey |-> k, dataFile |-> f, nodeEnv |-> n] :
        k \in BOOLEAN, f \in BOOLEAN, n \in NodeEnvs}

NextLocal ==
    \/ \E t \in Reqs : AskArrive(t)
    \/ \E t \in Reqs : InitChainDone(t)
    \/ \E t \in Reqs : AskResume(t)
    \/ \E t \in Reqs : LocalRetrieveDone(t)
    \/ \E t \in Reqs : GenerateDone(t)

InitMem == InitProcess("memory", LocalEnvs, {}, MaxLocalReq, 0)

SpecMem == InitMem /\ [][NextLocal]_vars

InitApp == InitProcess("app", LocalEnvs, {}, MaxLocalReq, 0)

SpecApp == InitApp /\ [][NextLocal]_vars


-----------------------------------------------------------------------------
(* The coaching panel of the frontend: POST /coaching formats the model's   *)
(* answer, getCoachingSuggestions sorts the suggestions into three lists,   *)
(* refreshCoachingSuggestions puts them on the page.  The keywords of the   *)
(* source are Japanese words; each is written here as a short ASCII word.   *)

MaxItems == 4

\* suggestion.includes(kw)
includes(s, kw) ==
    \E p \in 1..(Len(s) - Len(kw) + 1) : SubSeq(s, p, p + Len(kw) - 1) = kw

QuestionKeywords == {<<"q", "m">>, <<"k">>, <<"h", "r">>}
NextStepKeywords == {<<"n">>, <<"s", "t">>, <<"s", "u">>}

isQuestion(s) == \E kw \in QuestionKeywords : includes(s, kw)
isNextStep(s) == ~isQuestion(s) /\ \E kw \in NextStepKeywords : includes(s, kw)
isTip(s) == ~isQuestion(s) /\ ~isNextStep(s)

\* the forEach that pushes each suggestion on one of the three lists
keywordPass(sugs) ==
    [questions |-> SelectSeq(sugs, isQuestion),
     nextSteps |-> SelectSeq(sugs, isNextStep),
     tips |-> SelectSeq(sugs, isTip)]

\* Array.prototype.slice(from, to) for 0 <= from, to
slice(a, from, to) == SubSeq(a, Min({from, Len(a)}) + 1, Min({to, Len(a)}))

\* Math.ceil(n / d)
ceilDiv(n, d) == (n + d - 1) \div d

\* the three slices taken when the keyword pass found no question
positionalSplit(sugs) ==
    LET third == ceilDiv(Len(sugs), 3)
    IN  [questions |-> slice(sugs, 0, third),
         nextSteps |-> slice(sugs, third, third * 2),
         tips |-> slice(sugs, third * 2, Len(sugs))]

\* mutant: the fallback assigns questions only and leaves the two other
\* lists as the keyword pass filled them
categoriseKeepLists(sugs) ==
    LET result == keywordPass(sugs)
    IN  IF Len(result.questions) = 0
        THEN [result EXCEPT !.questions = positionalSplit(sugs).questions]
        ELSE result

\* the result of getCoachingSuggestions for data.suggestions
categorise(sugs) ==
    LET result == keywordPass(sugs)
    IN  IF Len(result.questions) = 0 THEN positionalSplit(sugs) ELSE result

\* the object returned from the catch of getCoachingSuggestions
FetchFailed ==
    [questions |-> << <<"e", "r", "r">> >>, nextSteps |-> <<>>, tips |-> <<>>]

\* refreshCoachingSuggestions: an array is cut in three, an object that has
\* the three lists is taken as it is
parsedSuggestions(response) ==
    IF response.t = "array" THEN positionalSplit(response.v) ELSE response.v

\* what the model may write between two list markers
ItemBodies ==
    { <<"q", "m">>, <<"n">>, <<"1", ".", "q">>, <<" ">>, <<"q", " ">>,
      <<"n", "q", "m">> }

\* what the model may write before the first marker
Preambles == { <<>>, <<" ">>, <<"x", " ">> }

DigitChar(k) == <<"0", "1", "2", "3", "4", "5", "6", "7", "8", "9">>[k + 1]

\* the list marker of item k: "k. "
marker(k) == <<DigitChar(k % 10), ".", " ">>

\* the model's answer: the preamble, then each item behind its marker
RECURSIVE numbered(_, _)
numbered(bodies, k) ==
    IF k > Len(bodies) THEN <<>>
    ELSE marker(k) \o bodies[k] \o numbered(bodies, k + 1)

answerText(pre, bodies) == pre \o numbered(bodies, 1)

ItemLists == UNION {[1..n -> ItemBodies] : n \in 0..MaxItems}

InitCoach ==
    /\ InitServer("pinecone", {e \in IngestEnvs : e.nodeEnv = "production"}, {}, 0,
                  MaxTime)
    /\ \E pre \in Preambles : \E bodies \in ItemLists :
        client = [NoClient EXCEPT !.pc = "waiting", !.pre = pre, !.bodies = bodies]

\* POST /coaching answers the page: the suggestions parsed from the model's
\* answer, or a 500
CoachingResponded ==
    /\ client.pc = "waiting"
    /\ \E ok \in BOOLEAN :
        client' = IF ok
                  THEN [client EXCEPT
                          !.pc = "fetched", !.status = 200,
                          !.suggestions =
                              ResAnswer("coaching",
                                        answerText(client.pre, client.bodies)).body.suggestions]
                  ELSE [client EXCEPT !.pc = "fetched", !.status = 500]
    /\ UNCHANGED <<backend, env, clientTexts, now, instance, chainPromise,
                   initCount, task, inflight, issued, store, uploads>>

\* getCoachingSuggestions returns: the three lists, or the error object
\* when the response was not ok
CoachingCategorised ==
    /\ client.pc = "fetched"
    /\ client' = [client EXCEPT
                    !.pc = "categorised",
                    !.result = IF client.status = 200
                               THEN categorise(client.suggestions)
                               ELSE FetchFailed]
    /\ UNCHANGED <<backend, env, clientTexts, now, instance, chainPromise,
                   initCount, task, inflight, issued, store, uploads>>

\* refreshCoachingSuggestions: setSuggestions(parsedSuggestions)
CoachingShown ==
    /\ client.pc = "categorised"
    /\ client' = [client EXCEPT
                    !.pc = "shown",
                    !.shown = parsedSuggestions([t |-> "object", v |-> client.result])]
    /\ UNCHANGED <<backend, env, clientTexts, now, instance, chainPromise,
                   initCount, task, inflight, issued, store, uploads>>

NextCoach ==
    \/ CoachingResponded
    \/ CoachingCategorised
    \/ CoachingShown

SpecCoach == InitCoach /\ [][NextCoach]_vars

-----------------------------------------------------------------------------
(* The conversation page (SalesCoachUI and SpeechRecognitionComponent).     *)
(* The page is one mounted component tree.  A handler sees the state of the *)
(* render it was created in: a submission keeps, across its await, the      *)
(* handleNewMessage of the render in which 送信 was clicked, and with it    *)
(* that render's messages.                                                  *)

MaxSubmit == 3

\* the server and its stores take no step while a page is modelled
serverVars == <<backend, env, clientTexts, now, instance, chainPromise,
                initCount, task, inflight, issued, store, uploads>>

\* the process behind a page: no request of the server model is in flight
InitPage ==
    InitServer("pinecone", {e \in IngestEnvs : e.nodeEnv = "production"}, {}, 0,
               MaxTime)

\* what the user may have in the text area when 送信 is clicked
EditableTexts == { <<"h">>, <<"k", " ">> }

\* the answers POST /ask may give, and the messages of a failed fetch
Answers == { <<"a">> }
ErrorMessages == { <<"5", "0", "0">> }

\* what askApi resolves to: the response body, or the object of its catch
askApiResults ==
    {[answer |-> a, error |-> <<>>] : a \in Answers}
        \cup {[answer |-> <<>>, error |-> <<"f", ":", " ">> \o m] : m \in ErrorMessages}

\* `エラーが発生しました: ${res.error}`
errorText(error) == <<"e", "r", "r", ":", " ">> \o error

\* "認識されたテキストがありません。"
NoTextMessage == <<"n", "o", " ", "t", "e", "x", "t">>

ChatMessage(speaker, text) == [speaker |-> speaker, text |-> text, timestamp |-> now]

\* a state updater that starts from the messages of the handler's render
setMessagesFromRender(prev, messages, newMessage) == Append(messages, newMessage)

\* setMessages(prev => [...prev, newMessage])
setMessages(prev, messages, newMessage) == Append(prev, newMessage)

\* the page as mounted: no message, no submission.  calls is the record of
\* the handleNewMessage calls made so far, posted the conversations sent to
\* POST /coaching
ChatPage == [pc |-> "chat", messages |-> <<>>, submissions |-> <<>>,
             calls |-> <<>>, posted |-> {}]

\* refreshCoachingSuggestions of a render whose state is messages: nothing
\* is posted for an empty conversation
refreshCoachingSuggestions(c, messages) ==
    IF Len(messages) = 0 THEN c
    ELSE [c EXCEPT !.posted = @ \cup {messages}]

\* handleNewMessage of a render whose state is messages, called on page c
handleNewMessage(c, messages, speaker, text) ==
    LET newMessage == ChatMessage(speaker, text)
        refresh == Len(messages) > 3
        appended == [c EXCEPT
                       !.messages = setMessages(@, messages, newMessage),
                       !.calls = Append(@, [message |-> newMessage,
                                            count |-> Len(c.messages) + 1,
                                            refreshed |-> refresh,
                                            posted |-> IF refresh THEN messages
                                                       ELSE <<>>])]
    IN  IF refresh THEN refreshCoachingSuggestions(appended, messages)
        ELSE appended

\* handleSubmit up to its await: 送信 is enabled only for a text that is not
\* blank; askApi is called, or the error message is added at once
handleSubmit(editableText) ==
    /\ client.pc = "chat"
    /\ Len(client.submissions) < MaxSubmit
    /\ trim(editableText) # <<>>
    /\ client' =
         IF trim(editableText) # <<>>
         THEN [client EXCEPT
                 !.submissions = Append(@, [text |-> editableText,
                                            messages |-> client.messages,
                                            pc |-> "askApi",
                                            res |-> [answer |-> <<>>, error |-> <<>>]])]
         ELSE handleNewMessage(client, client.messages, "Error", NoTextMessage)
    /\ UNCHANGED serverVars

\* handleSubmit after its await: askApi resolved with res
handleSubmitResume(s, res) ==
    /\ client.pc = "chat"
    /\ s \in 1..Len(client.submissions)
    /\ client.submissions[s].pc = "askApi"
    /\ LET sub == client.submissions[s]
           settled == [client EXCEPT !.submissions[s].pc = "done",
                                     !.submissions[s].res = res]
       IN  client' =
             IF res.error # <<>>
             THEN handleNewMessage(settled, sub.messages, "Error", errorText(res.error))
             ELSE handleNewMessage(
                      handleNewMessage(settled, sub.messages, "user", sub.text),
                      sub.messages, "AI", res.answer)
    /\ UNCHANGED serverVars

\* 更新 of the coaching panel: refreshCoachingSuggestions of the current render
RefreshClicked ==
    /\ client.pc = "chat"
    /\ client' = refreshCoachingSuggestions(client, client.messages)
    /\ UNCHANGED serverVars

InitChat == InitPage /\ client = ChatPage

NextChat ==
    \/ \E editableText \in EditableTexts : handleSubmit(editableText)
    \/ \E s \in 1..MaxSubmit : \E res \in askApiResults : handleSubmitResume(s, res)
    \/ RefreshClicked

SpecChat == InitChat /\ [][NextChat]_vars

-----------------------------------------------------------------------------
(* The minutes form (MinutesCreator), rendered inside <React.StrictMode>.   *)
(* The three updaters copy the state object with { ...prev } and then push, *)
(* splice or assign on the arrays and objects the copy shares with prev.    *)
(* An updater that React invokes again for the same update therefore works  *)
(* on arrays the first invocation has already changed: the state after the  *)
(* update is the updater applied as many times as it was invoked.           *)

MaxOps == 3

ListSections == {"participants", "absentees", "agendaItems", "agreements",
                 "concerns", "actionItems", "nextSteps"}

ScalarSections == {"date", "startTime", "endTime", "location", "otherMatters",
                   "creator", "creationDate"}

\* the fields handleChange is called with for the entries of a section
FieldsOf(section) ==
    CASE section = "participants" -> {"name", "position", "company"}
      [] section = "actionItems" -> {"task", "responsible", "deadline"}
      [] section = "nextMeeting" -> {"date", "time", "location", "agenda"}
      [] OTHER -> {""}

\* the entry addItem pushes, which is also the one entry of the initial state
EmptyEntry(section) ==
    CASE section = "participants" -> [name |-> <<>>, position |-> <<>>, company |-> <<>>]
      [] section = "actionItems" -> [task |-> <<>>, responsible |-> <<>>, deadline |-> <<>>]
      [] OTHER -> <<>>

\* new Date().toISOString().split('T')[0]
isoDate(t) == <<"d", DigitChar(t % 10)>>

\* the argument of useState
InitialMinutes ==
    [date |-> isoDate(MaxTime), startTime |-> <<>>, endTime |-> <<>>, location |-> <<>>,
     participants |-> <<EmptyEntry("participants")>>,
     absentees |-> <<EmptyEntry("absentees")>>,
     agendaItems |-> <<EmptyEntry("agendaItems")>>,
     agreements |-> <<EmptyEntry("agreements")>>,
     concerns |-> <<EmptyEntry("concerns")>>,
     actionItems |-> <<EmptyEntry("actionItems")>>,
     nextSteps |-> <<EmptyEntry("nextSteps")>>,
     otherMatters |-> <<>>,
     nextMeeting |-> [date |-> <<>>, time |-> <<>>, location |-> <<>>, agenda |-> <<>>],
     creator |-> <<>>, creationDate |-> isoDate(MaxTime)]

\* what the user may type into a fieldName
TypedValues == { <<"x">> }

\* array.push(x)
push(array, x) == Append(array, x)

\* array.splice(index, 1), index counted from 0
splice(array, index) ==
    IF index < Len(array)
    THEN SubSeq(array, 1, index) \o SubSeq(array, index + 2, Len(array))
    ELSE array

\* one invocation of the updater of addItem
addItemUpdater(prev, section) ==
    IF section \in ListSections
    THEN [prev EXCEPT ![section] = push(@, EmptyEntry(section))]
    ELSE prev

\* one invocation of the updater of removeItem
removeItemUpdater(prev, section, index) ==
    IF section \in ListSections
    THEN [prev EXCEPT ![section] = splice(@, index)]
    ELSE prev

\* one invocation of the updater of handleChange; index is -1 when the call
\* passes none
handleChangeUpdater(prev, section, fieldName, value, index) ==
    IF section \in {"participants", "actionItems"} /\ index >= 0
    THEN [prev EXCEPT ![section][index + 1][fieldName] = value]
    ELSE IF section \in ListSections /\ index >= 0
    THEN [prev EXCEPT ![section][index + 1] = value]
    ELSE IF section = "nextMeeting"
    THEN IF fieldName \in DOMAIN prev.nextMeeting
         THEN [prev EXCEPT !.nextMeeting[fieldName] = value]
         ELSE prev
    ELSE [prev EXCEPT ![section] = value]

\* how many times React invokes an updater for one update: once in a
\* production build; under StrictMode in a development build once (the state
\* computed eagerly at dispatch is reused) or twice
Invocations(build) == IF build = "development" THEN {1, 2} ELSE {1}

\* the state after an update whose updater was invoked n times
addItemInvoked(prev, section, n) ==
    IF n = 1 THEN addItemUpdater(prev, section)
    ELSE addItemUpdater(addItemUpdater(prev, section), section)

removeItemInvoked(prev, section, index, n) ==
    IF n = 1 THEN removeItemUpdater(prev, section, index)
    ELSE removeItemUpdater(removeItemUpdater(prev, section, index), section, index)

handleChangeInvoked(prev, section, fieldName, value, index, n) ==
    IF n = 1 THEN handleChangeUpdater(prev, section, fieldName, value, index)
    ELSE handleChangeUpdater(handleChangeUpdater(prev, section, fieldName, value, index),
                             section, fieldName, value, index)

\* the page as mounted
MinutesPage(build) ==
    [pc |-> "minutes", build |-> build, minutesData |-> InitialMinutes, ops |-> 0,
     last |-> [op |-> "none", section |-> "", index |-> 0]]

\* setMinutesData: the state becomes what the updater returned; the
\* operation is recorded
setMinutesData(newData, op, section, index) ==
    /\ client.ops < MaxOps
    /\ client' = [client EXCEPT
                    !.minutesData = newData,
                    !.ops = @ + 1,
                    !.last = [op |-> op, section |-> section, index |-> index]]
    /\ UNCHANGED serverVars

\* the add button of a section
addItem(section) ==
    /\ client.pc = "minutes"
    /\ \E n \in Invocations(client.build) :
        setMinutesData(addItemInvoked(client.minutesData, section, n),
                       "addItem", section, 0)

\* 削除 of entry index, rendered only while the list has more than one entry
removeItem(section, index) ==
    /\ client.pc = "minutes"
    /\ Len(client.minutesData[section]) > 1
    /\ index \in 0..(Len(client.minutesData[section]) - 1)
    /\ \E n \in Invocations(client.build) :
        setMinutesData(removeItemInvoked(client.minutesData, section, index, n),
                       "removeItem", section, index)

\* onChange of the input of a list entry
handleChangeEntry(section, fieldName, value, index) ==
    /\ client.pc = "minutes"
    /\ index \in 0..(Len(client.minutesData[section]) - 1)
    /\ \E n \in Invocations(client.build) :
        setMinutesData(
            handleChangeInvoked(client.minutesData, section, fieldName, value, index, n),
            "handleChange", section, index)

\* onChange of the other inputs
handleChange(section, fieldName, value) ==
    /\ client.pc = "minutes"
    /\ \E n \in Invocations(client.build) :
        setMinutesData(
            handleChangeInvoked(client.minutesData, section, fieldName, value, -1, n),
            "handleChange", section, -1)

InitMinutes ==
    /\ InitPage
    /\ \E build \in {"development", "production"} : client = MinutesPage(build)

NextMinutes ==
    \/ \E section \in ListSections : addItem(section)
    \/ \E section \in ListSections : \E index \in 0..MaxOps : removeItem(section, index)
    \/ \E section \in ListSections : \E fieldName \in FieldsOf(section) :
       \E value \in TypedValues : \E index \in 0..MaxOps :
          handleChangeEntry(section, fieldName, value, index)
    \/ \E section \in ScalarSections \cup {"nextMeeting"} :
       \E fieldName \in FieldsOf(section) : \E value \in TypedValues :
          handleChange(section, fieldName, value)

SpecMinutes == InitMinutes /\ [][NextMinutes]_vars

-----------------------------------------------------------------------------
(* The knowledge manager page (KnowledgeManager): one text form and one     *)
(* file form, which share loading, message and error.                       *)

MaxSend == 2

\* what the user may have typed into the text area and the source field
TypedTexts == { <<>>, <<" ">>, <<"t">> }
TypedSources == { <<>>, <<"s">> }

\* the file state: null, or the file chosen in the file input
ChosenFiles == { "null", "f.txt" }

\* 'テキストを入力してください', 'ファイルを選択してください',
\* 'エラーが発生しました', 'サーバーとの通信に失敗しました'
EnterTextError == <<"n", "o", " ", "t", "e", "x", "t">>
ChooseFileError == <<"n", "o", " ", "f", "i", "l", "e">>
DefaultError == <<"e", "r", "r", "o", "r">>
CommunicationError == <<"c", "o", "m", "m">>

\* what fetch and response.json() may give: the fetch rejects; the body is
\* not JSON; 200 with a message; an HTTP error with or without an error field
FetchOutcomes ==
    { [net |-> FALSE, ok |-> FALSE, json |-> FALSE, message |-> <<>>, error |-> <<>>],
      [net |-> TRUE, ok |-> FALSE, json |-> FALSE, message |-> <<>>, error |-> <<>>],
      [net |-> TRUE, ok |-> TRUE, json |-> TRUE, message |-> <<"a", "d", "d", "e", "d">>,
       error |-> <<>>],
      [net |-> TRUE, ok |-> FALSE, json |-> TRUE, message |-> <<>>,
       error |-> <<"I", "S", "E">>],
      [net |-> TRUE, ok |-> FALSE, json |-> TRUE, message |-> <<>>, error |-> <<>>] }

NoOutcome == [net |-> FALSE, ok |-> FALSE, json |-> FALSE, message |-> <<>>, error |-> <<>>]

\* the page as mounted; requests is the list of the fetches started so far
KnowledgePage ==
    [pc |-> "knowledge", text |-> <<>>, source |-> <<>>, file |-> "null",
     loading |-> FALSE, message |-> <<>>, error |-> <<>>, activeTab |-> "text",
     requests |-> <<>>]

\* a submit button that is never disabled
submitNeverDisabled(c) == FALSE

\* disabled={loading} of both submit buttons
submitDisabled(c) == c.loading

\* setLoading(true); setError(''); setMessage(''); and the fetch
startRequest(c, tab) ==
    [c EXCEPT !.loading = TRUE, !.error = <<>>, !.message = <<>>,
              !.requests = Append(@, [tab |-> tab, pc |-> "fetch", res |-> NoOutcome])]

\* onChange of the text area, of the source field and of the file input
setText(value) ==
    /\ client.pc = "knowledge"
    /\ client.activeTab = "text"
    /\ client' = [client EXCEPT !.text = value]
    /\ UNCHANGED serverVars

setSource(value) ==
    /\ client.pc = "knowledge"
    /\ client.activeTab = "text"
    /\ client' = [client EXCEPT !.source = value]
    /\ UNCHANGED serverVars

handleFileChange(chosen) ==
    /\ client.pc = "knowledge"
    /\ client.activeTab = "file"
    /\ client' = IF chosen # "null" THEN [client EXCEPT !.file = chosen] ELSE client
    /\ UNCHANGED serverVars

setActiveTab(tab) ==
    /\ client.pc = "knowledge"
    /\ client' = [client EXCEPT !.activeTab = tab]
    /\ UNCHANGED serverVars

\* handleTextSubmit up to its await.  The form is submitted only when the
\* button is enabled and the required text area is not empty
handleTextSubmit ==
    /\ client.pc = "knowledge"
    /\ client.activeTab = "text"
    /\ ~submitDisabled(client)
    /\ client.text # <<>>
    /\ Len(client.requests) < MaxSend
    /\ client' = IF trim(client.text) = <<>>
                 THEN [client EXCEPT !.error = EnterTextError]
                 ELSE startRequest(client, "text")
    /\ UNCHANGED serverVars

\* handleFileSubmit up to its await
handleFileSubmit ==
    /\ client.pc = "knowledge"
    /\ client.activeTab = "file"
    /\ ~submitDisabled(client)
    /\ Len(client.requests) < MaxSend
    /\ client' = IF client.file = "null"
                 THEN [client EXCEPT !.error = ChooseFileError]
                 ELSE startRequest(client, "file")
    /\ UNCHANGED serverVars

\* the catch and the finally of both handlers
requestFailed(c, k) ==
    [c EXCEPT !.error = CommunicationError, !.loading = FALSE,
              !.requests[k].pc = "done"]

\* `await fetch(...)` settles: the catch, or on to response.json()
FetchSettled(k) ==
    /\ client.pc = "knowledge"
    /\ k \in 1..Len(client.requests)
    /\ client.requests[k].pc = "fetch"
    /\ \E res \in FetchOutcomes :
        client' = IF res.net
                  THEN [client EXCEPT !.requests[k].pc = "json",
                                      !.requests[k].res = res]
                  ELSE requestFailed([client EXCEPT !.requests[k].res = res], k)
    /\ UNCHANGED serverVars

\* `await response.json()` settles: the rest of the try, and the finally
JsonParsed(k) ==
    /\ client.pc = "knowledge"
    /\ k \in 1..Len(client.requests)
    /\ client.requests[k].pc = "json"
    /\ LET req == client.requests[k]
           res == req.res
           settled == [client EXCEPT !.loading = FALSE, !.requests[k].pc = "done"]
       IN  client' =
             IF ~res.json THEN requestFailed(client, k)
             ELSE IF res.ok
             THEN IF req.tab = "text"
                  THEN [settled EXCEPT !.message = res.message, !.text = <<>>,
                                       !.source = <<>>]
                  ELSE [settled EXCEPT !.message = res.message, !.file = "null"]
             ELSE [settled EXCEPT !.error = IF res.error # <<>> THEN res.error
                                            ELSE DefaultError]
    /\ UNCHANGED serverVars

InitKnowledge == InitPage /\ client = KnowledgePage

NextKnowledge ==
    \/ \E value \in TypedTexts : setText(value)
    \/ \E value \in TypedSources : setSource(value)
    \/ \E chosen \in ChosenFiles : handleFileChange(chosen)
    \/ \E tab \in {"text", "file"} : setActiveTab(tab)
    \/ handleTextSubmit
    \/ handleFileSubmit
    \/ \E k \in 1..MaxSend : FetchSettled(k)
    \/ \E k \in 1..MaxSend : JsonParsed(k)

\* every fetch and every response.json() settles in the end; the user is
\* under no obligation to do anything
SpecKnowledge ==
    /\ InitKnowledge
    /\ [][NextKnowledge]_vars
    /\ WF_vars(\E k \in 1..MaxSend : FetchSettled(k) \/ JsonParsed(k))

-----------------------------------------------------------------------------
(* Properties *)

Arrived(t) == task[t].pc \notin {"idle", "unused"}

\* requests that passed validation on an agent route
Served == {t \in Reqs : Arrived(t) /\ task[t].kind \in AskKinds
                         /\ task[t].resp.status # 400}

RECURSIVE Flatten(_)
Flatten(ss) == IF ss = <<>> THEN <<>> ELSE Head(ss) \o Flatten(Tail(ss))

Range(f) == {f[k] : k \in DOMAIN f}

UpsertsInFlight(t) == {c \in inflight : c.by = t /\ c.op = "upsert"}

\* C1: over any interleaving of agent requests in one backend process,
\* initChain is started exactly once: not before a request is served, once as
\* soon as one is, and never again, whatever the number of requests.
C1_InitOnce == IF Served = {} THEN initCount = 0 ELSE initCount = 1

\* C2: the outcome of initialisation is cached, failure included: once
\* chainPromise is rejected, initChain has run exactly once and is never run
\* again, and every ask that has ended has ended with that same error.
C2_FailureCached ==
    chainPromise[0].st = "rejected" =>
        /\ initCount = 1
        /\ \A t \in Served :
            task[t].pc = "done" =>
                /\ task[t].resp.status = 500
                /\ task[t].resp.body.message = chainPromise[0].err.message

\* C2 witness: a request that did not build the agent, i.e. that arrived
\* after the first one, was answered from the cached rejection.
C2_Witness ==
    /\ chainPromise[0].st = "rejected"
    /\ chainPromise[0].err.message = ProviderError("init_embed").message
    /\ \E t \in Served : ~task[t].built /\ task[t].pc = "done"

\* C3: when the embedding call or the vector-store query of the retriever
\* fails, the retriever yields no document, the generation call is still
\* issued, and if the model answers the request is answered 200 with the
\* model's text; only a failed generation can end it otherwise.
C3_RetrievalDegrades ==
    \A t \in Reqs :
        task[t].retrFailed =>
            /\ task[t].docs = <<>>
            /\ task[t].gen # "none"
            /\ task[t].gen = "issued" <=> Call(t, "generate", <<>>) \in inflight
            /\ task[t].pc = "done" => task[t].gen \in {"ok", "fail"}
            /\ task[t].gen = "ok" =>
                  task[t].resp = ResAnswer(task[t].kind, task[t].answer)
            /\ task[t].resp.status = 500 => task[t].gen = "fail"

\* C3 witness: a request whose retrieval failed was answered 200.
C3_Witness ==
    \E t \in Reqs : /\ task[t].retrFailed
                    /\ task[t].pc = "done"
                    /\ task[t].resp.status = 200
                    /\ task[t].kind = "ask"
                    /\ task[t].resp.body.answer = task[t].answer

ConfigErrors == {"OpenAI API key not found",
                 "OPEN_API_KEY is not set in environment variables."}

\* C4: when OPEN_API_KEY is absent, a served ask ends with a configuration
\* error, and until it has ended neither the agent (task 0) nor the request
\* has issued any network call.
C4_FailFast ==
    ~env.apiKey =>
        \A t \in Served :
            /\ task[t].pc = "done" =>
                  /\ task[t].resp.status = 500
                  /\ task[t].resp.body.message \in ConfigErrors
            /\ task[t].pc # "done" => issued[0] + issued[t] = 0

\* C5: a POST /ask or /test whose body has no question is answered 400 at
\* once, it constructs no agent and issues no external call; while only such
\* requests have arrived no agent exists and no call has been made at all.
C5_MissingQuestion ==
    LET bad == {t \in Reqs : /\ Arrived(t)
                             /\ task[t].kind \in {"ask", "test"}
                             /\ task[t].body.question = Undef}
    IN  /\ \A t \in bad :
            /\ task[t].pc = "done"
            /\ task[t].resp = Res400("Missing 'question' in request body")
            /\ ~task[t].built
            /\ issued[t] = 0
        /\ (\A t \in Reqs : Arrived(t) => t \in bad) =>
            /\ ~instance
            /\ initCount = 0
            /\ inflight = {}
            /\ \A t \in Tasks : issued[t] = 0

\* C5 witness: such a request has been answered 400.
C5_Witness ==
    \E t \in Reqs : /\ task[t].kind = "test"
                    /\ task[t].body.question = Undef
                    /\ task[t].resp.status = 400

\* C6: a POST /coaching whose conversation is missing, is not an array or is
\* an empty array is answered 400 with the fixed error and never reaches ask
\* (no agent built, no call issued); a non-empty array is never answered 400.
C6_ConversationChecked ==
    \A t \in Reqs :
        (Arrived(t) /\ task[t].kind = "coaching") =>
            LET c == task[t].body.conversation
                nonEmptyArray == c.t = "array" /\ Len(c.v) >= 1
            IN  IF nonEmptyArray
                THEN task[t].resp.status # 400
                ELSE /\ task[t].pc = "done"
                     /\ task[t].resp = Res400("valid conversation data is required")
                     /\ ~task[t].built
                     /\ issued[t] = 0
                     /\ task[t].gen = "none"

\* C6 witness: {"conversation": []} has been answered 400.
C6_Witness ==
    \E t \in Reqs : /\ task[t].kind = "coaching"
                    /\ task[t].body.conversation = Arr(<<>>)
                    /\ task[t].resp.status = 400

\* the paragraphs of a text, read character by character
RECURSIVE paragraphs(_, _)
paragraphs(s, cur) ==
    IF s = <<>> THEN <<cur>>
    ELSE IF Len(s) >= 2 /\ s[1] = "\n" /\ s[2] = "\n"
    THEN <<cur>> \o paragraphs(SubSeq(s, 3, Len(s)), <<>>)
    ELSE paragraphs(Tail(s), Append(cur, Head(s)))

nonBlankCount(s) ==
    LET ps == paragraphs(s, <<>>)
    IN  Cardinality({k \in 1..Len(ps) : \E j \in 1..Len(ps[k]) : ps[k][j] \notin WS})

\* C7: a POST /knowledge/add with an accepted text and no provider error
\* ends 200; the records it upserted are as many as the paragraphs of the
\* text that are not blank, and the message reports that number.
C7_OnePerParagraph ==
    \A t \in Reqs :
        (task[t].kind = "add" /\ task[t].pc = "done"
            /\ task[t].resp.status # 400 /\ task[t].failed = NoFailure) =>
            LET n == nonBlankCount(task[t].body.text.v)
            IN  /\ task[t].resp = ResAdded(n)
                /\ Len(Flatten(task[t].sent)) = n
                /\ UpsertsInFlight(t) = {}

\* C7 witness: the text "a\n\nb\n\n" was added as 2 documents.
C7_Witness ==
    \E t \in Reqs : /\ task[t].kind = "add"
                    /\ task[t].body.text = Str(<<"a", "\n", "\n", "b", "\n", "\n">>)
                    /\ task[t].resp = ResAdded(2)
                    /\ \E x \in store : x.metadata.v.pageContent = Str(<<"b">>)

IngestTasks == {t \in Tasks : task[t].kind \in {"add", "upload", "seed"}}

\* C8: in every ingestion (text, file, seeding) each upsert carries 1 to 100
\* records, the batches sent so far are consecutive slices of the record list
\* from its start, and an ingestion that ends without a failure has sent the
\* whole list in ceil(n/100) calls.
C8_Batches ==
    \A t \in IngestTasks :
        LET sent == task[t].sent
            all == Flatten(sent)
            n == Len(task[t].records)
        IN  /\ \A k \in 1..Len(sent) : Len(sent[k]) \in 1..BATCH_SIZE
            /\ Len(all) <= n
            /\ all = SubSeq(task[t].records, 1, Len(all))
            /\ \A c \in UpsertsInFlight(t) : c.arg \in Range(sent)
            /\ (task[t].pc = "done" /\ task[t].failed = NoFailure) =>
                  /\ all = task[t].records
                  /\ Len(sent) = (n + BATCH_SIZE - 1) \div BATCH_SIZE

\* C8 witness: a file of more than 200 paragraphs went out in three calls.
C8_Witness ==
    \E t \in Reqs : /\ task[t].kind = "upload"
                    /\ task[t].pc = "done"
                    /\ task[t].resp.status = 200
                    /\ Len(task[t].sent) = 3
                    /\ Len(task[t].sent[3]) = 1

\* C9: when the upsert of a batch fails in an ingestion request, that batch
\* is the last one sent (no later batch, no retry), nothing of the request
\* stays in flight, the response is 500 with the error's message, and the
\* records of the batches before it are in the store.
C9_UpsertFailureAborts ==
    \A t \in Reqs :
        (task[t].kind \in IngestKinds /\ task[t].failed.op = "upsert") =>
            LET k == task[t].failed.off \div BATCH_SIZE
            IN  /\ task[t].pc = "done"
                /\ task[t].resp.status = 500
                /\ task[t].resp.body.message = ProviderError("upsert").message
                /\ Len(task[t].sent) = k + 1
                /\ UpsertsInFlight(t) = {}
                /\ \A j \in 1..k : Range(task[t].sent[j]) \subseteq store
                /\ Range(task[t].sent[k + 1]) \cap store = {}

\* C9 witness: the second batch of an add request failed.
C9_Witness ==
    \E t \in Reqs : /\ task[t].kind = "add"
                    /\ task[t].failed = [op |-> "upsert", off |-> BATCH_SIZE]
                    /\ Len(task[t].records) > 2 * BATCH_SIZE
                    /\ Cardinality(store) >= BATCH_SIZE

\* C10: a request never has more than one upsert in flight, and the one in
\* flight is the batch sent last: every batch before it has completed and is
\* in the store.
C10_SequentialUpserts ==
    \A t \in IngestTasks :
        /\ Cardinality(UpsertsInFlight(t)) <= 1
        /\ \A c \in UpsertsInFlight(t) :
            /\ c.arg = task[t].sent[Len(task[t].sent)]
            /\ \A j \in 1..(Len(task[t].sent) - 1) :
                  Range(task[t].sent[j]) \subseteq store

\* C10 witness: the second batch is in flight after the first completed.
C10_Witness ==
    \E t \in Reqs : /\ Len(task[t].sent) = 2
                    /\ Cardinality(UpsertsInFlight(t)) = 1
                    /\ Range(task[t].sent[1]) \subseteq store

CallsInFlight(t) == {c \in inflight : c.by = t}

\* C11: when the embedding of a chunk fails in an ingestion request, the
\* request ends 500 at once: that embedding was its last call (no later chunk
\* is embedded) and every call it has issued was an embedding, one per record
\* built plus the failed one, so it has sent no upsert and written nothing
\* to the store.
C11_EmbedFailureAborts ==
    \A t \in Reqs :
        (task[t].kind \in IngestKinds /\ task[t].failed.op = "embed") =>
            /\ task[t].pc = "done"
            /\ task[t].resp.status = 500
            /\ task[t].resp.body.message = ProviderError("embed").message
            /\ CallsInFlight(t) = {}
            /\ task[t].sent = <<>>
            /\ issued[t] = Len(task[t].records) + 1
            /\ task[t].i = task[t].failed.off

\* C11 witness: the second paragraph of a text failed to embed after the
\* first one had been embedded.
C11_Witness ==
    \E t \in Reqs : /\ task[t].kind = "add"
                    /\ task[t].failed.op = "embed"
                    /\ Len(task[t].records) = 1
                    /\ task[t].i < Len(task[t].chunks)
                    /\ task[t].pc = "done"

\* C12: when an upsert fails during ingestion, the body of the response
\* carries the message and the code of the error the provider rejected with.
C12_DiagnosticFields ==
    \A t \in Reqs :
        (task[t].kind \in IngestKinds /\ task[t].failed.op = "upsert") =>
            /\ task[t].resp.body.message = ProviderError("upsert").message
            /\ "code" \in DOMAIN task[t].resp.body
            /\ task[t].resp.body.code = ProviderError("upsert").code

\* C13: for every POST /knowledge/upload that carries a file, the temporary
\* file is no longer on disk once the response has been sent, whatever the
\* outcome of the request.
C13_TempFileDeleted ==
    \A t \in Reqs :
        (task[t].kind = "upload" /\ fileOk(task[t].body) /\ task[t].pc = "done") =>
            t \notin uploads

idsOf(records) == {records[k].id : k \in 1..Len(records)}

\* pairs of ingestion requests that carry the same text under distinct labels
SameTextPairs ==
    {p \in Reqs \X Reqs :
        /\ p[1] < p[2]
        /\ task[p[1]].kind \in IngestKinds
        /\ task[p[1]].kind = task[p[2]].kind
        /\ task[p[1]].chunks # <<>>
        /\ task[p[1]].chunks = task[p[2]].chunks
        /\ Truthy(task[p[1]].body.source)
        /\ Truthy(task[p[2]].body.source)
        /\ task[p[1]].body.source # task[p[2]].body.source}

\* C14: two ingestion requests that carry the same text with distinct source
\* labels build records whose ids are pairwise distinct, within each request
\* and across the two.
C14_DistinctIds ==
    \A p \in SameTextPairs :
        /\ Cardinality(idsOf(task[p[1]].records)) = Len(task[p[1]].records)
        /\ Cardinality(idsOf(task[p[2]].records)) = Len(task[p[2]].records)
        /\ idsOf(task[p[1]].records) \cap idsOf(task[p[2]].records) = {}

\* C15: the store is append-only: a record that is in the store stays in it,
\* with the same text and source, over every step of the system.
C15_AppendOnly == [][\A x \in store : x \in store']_vars

\* the pieces of the model's answer that are not blank, trimmed, in order
RECURSIVE trimmedNonBlank(_)
trimmedNonBlank(pieces) ==
    IF pieces = <<>> THEN <<>>
    ELSE (IF \E j \in 1..Len(Head(pieces)) : Head(pieces)[j] \notin WS
          THEN <<trim(Head(pieces))>> ELSE <<>>)
         \o trimmedNonBlank(Tail(pieces))

\* number of elements of seq equal to x
Count(seq, x) == Cardinality({k \in 1..Len(seq) : seq[k] = x})

AllOf(lists) == lists.questions \o lists.nextSteps \o lists.tips

\* the three lists hold each suggestion exactly as often as the array does
SameItems(lists, sugs) ==
    /\ Len(AllOf(lists)) = Len(sugs)
    /\ \A x \in Range(sugs) \cup Range(AllOf(lists)) :
          Count(AllOf(lists), x) = Count(sugs, x)

\* C16: when POST /coaching answered 200, the three lists returned by
\* getCoachingSuggestions, and the three lists put on the page, hold every
\* suggestion of the response exactly once, and their combined length is the
\* number of non-blank segments of the model's answer.
C16_NothingLost ==
    (client.status = 200 /\ client.pc \in {"categorised", "shown"}) =>
        /\ SameItems(client.result, client.suggestions)
        /\ Len(AllOf(client.result)) =
              Len(trimmedNonBlank(<<client.pre>> \o client.bodies))
        /\ client.pc = "shown" => client.shown = client.result

\* C16 witness: the keyword branch with all three lists filled, shown.
C16_Witness ==
    /\ client.pc = "shown"
    /\ client.status = 200
    /\ Len(client.shown.questions) > 0
    /\ Len(client.shown.nextSteps) > 0
    /\ Len(client.shown.tips) > 0
    /\ client.shown = keywordPass(client.suggestions)

\* C16 second case: the positional branch with four suggestions.
C16_WitnessFallback ==
    /\ client.pc = "shown"
    /\ Len(client.suggestions) = 4
    /\ Len(keywordPass(client.suggestions).questions) = 0

Abs(x) == IF x < 0 THEN -x ELSE x

\* C17: when the keyword pass finds no question, the three lists are
\* consecutive slices of the suggestions in order, they replace what the
\* keyword pass had put in nextSteps and tips, and any two of their lengths
\* differ by at most one.
C17_EvenSplit ==
    (/\ client.status = 200
     /\ client.pc \in {"categorised", "shown"}
     /\ Len(keywordPass(client.suggestions).questions) = 0) =>
        LET r == client.result
        IN  /\ AllOf(r) = client.suggestions
            /\ Abs(Len(r.questions) - Len(r.nextSteps)) <= 1
            /\ Abs(Len(r.questions) - Len(r.tips)) <= 1
            /\ Abs(Len(r.nextSteps) - Len(r.tips)) <= 1

\* C18 (as stated): the suggestions of POST /coaching are the non-blank
\* pieces of the model's answer between its list markers, trimmed, in order,
\* and an answer with no marker yields exactly one element.
C18_Suggestions ==
    client.status = 200 =>
        /\ client.suggestions = trimmedNonBlank(<<client.pre>> \o client.bodies)
        /\ \A k \in 1..Len(client.suggestions) :
              /\ Len(client.suggestions[k]) > 0
              /\ client.suggestions[k][1] \notin WS
              /\ client.suggestions[k][Len(client.suggestions[k])] \notin WS
        /\ client.bodies = <<>> => Len(client.suggestions) = 1

\* C18 (amended): the same, except that an answer with no marker yields one
\* element when it is not blank and none when it is empty or all whitespace.
C18_SuggestionsAmended ==
    client.status = 200 =>
        /\ client.suggestions = trimmedNonBlank(<<client.pre>> \o client.bodies)
        /\ \A k \in 1..Len(client.suggestions) :
              /\ Len(client.suggestions[k]) > 0
              /\ client.suggestions[k][1] \notin WS
              /\ client.suggestions[k][Len(client.suggestions[k])] \notin WS
        /\ client.bodies = <<>> =>
              Len(client.suggestions) =
                  (IF \E j \in 1..Len(client.pre) : client.pre[j] \notin WS THEN 1 ELSE 0)

\* C18 witness: a preamble and three items, one of them blank and one with
\* trailing whitespace, gave three suggestions.
C18_Witness ==
    /\ client.status = 200
    /\ client.pre = <<"x", " ">>
    /\ client.bodies = << <<"q", " ">>, <<" ">>, <<"n">> >>
    /\ client.suggestions = << <<"x">>, <<"q">>, <<"n">> >>

\* C19: every 500 body has the field error, and the fields message and stack
\* are present only when NODE_ENV is development: otherwise both are absent.
C19_VerboseOnlyInDevelopment ==
    \A t \in Reqs :
        task[t].resp.status = 500 =>
            /\ "error" \in DOMAIN task[t].resp.body
            /\ env.nodeEnv # "development" =>
                  /\ "message" \notin DOMAIN task[t].resp.body
                  /\ "stack" \notin DOMAIN task[t].resp.body

documentOf(m) ==
    LET has(name) == /\ m.metadata.t = "object"
                     /\ m.metadata.v[name].t = "string"
                     /\ m.metadata.v[name].v # <<>>
    IN  [pageContent |-> IF has("pageContent") THEN m.metadata.v.pageContent.v
                         ELSE <<"DEFAULT_CONTENT">>,
         metadata |-> [source |-> IF has("source") THEN m.metadata.v.source.v
                                  ELSE <<"UNKNOWN">>]]

Seeded == {x \in store : x.id[1] = "default-knowledge"}

\* C21: a retrieval whose query succeeded holds one document per match, in
\* the order of the matches, each with the stored text and source or the
\* placeholder for what the match lacks; the matches are at most 5 distinct
\* records, and 5 when the index held 5 or more; the retrieval has not
\* failed and no match was dropped.
C21_OneDocumentPerMatch ==
    \A t \in Reqs :
        (task[t].pc \in {"generate", "done"} /\ task[t].kind \in AskKinds
            /\ task[t].resp.status # 400 /\ task[t].gen # "none"
            /\ ~task[t].retrFailed) =>
            LET ms == task[t].matches
                ds == task[t].docs
            IN  /\ Len(ds) = Len(ms)
                /\ \A k \in 1..Len(ms) : ds[k] = documentOf(ms[k])
                /\ Len(ms) <= TOP_K
                /\ Cardinality(Range(ms)) = Len(ms)
                /\ Range(ms) \subseteq store
                /\ Len(ms) >= Min({TOP_K, Cardinality(store \ Seeded)})

\* C21 witness: five matches, among them one without text and one without
\* metadata, gave five documents.
C21_Witness ==
    \E t \in Reqs :
        /\ task[t].pc = "done"
        /\ task[t].resp.status = 200
        /\ Len(task[t].docs) = TOP_K
        /\ \E k \in 1..TOP_K : task[t].matches[k].metadata = Undef
        /\ \E k \in 1..TOP_K :
              /\ task[t].matches[k].metadata.t = "object"
              /\ task[t].matches[k].metadata.v.pageContent = Undef
              /\ task[t].docs[k].pageContent = <<"DEFAULT_CONTENT">>

\* a POST /ask that passed validation
ValidAsk(t) == task[t].kind = "ask" /\ Arrived(t) /\ questionOk(task[t].body)

Answered(t) == task[t].resp.status # 0

\* C22 (as stated): a valid POST /ask is answered only after the one
\* generation call made for it has completed: 200 with the model's text as
\* answer, or 500 when that call failed.
C22_AnsweredAfterGeneration ==
    \A t \in Reqs :
        (ValidAsk(t) /\ Answered(t)) =>
            /\ task[t].gen \in {"ok", "fail"}
            /\ Call(t, "generate", <<>>) \notin inflight
            /\ task[t].gen = "ok" =>
                  task[t].resp = [status |-> 200, body |-> [answer |-> task[t].answer]]
            /\ task[t].gen = "fail" => task[t].resp.status = 500

\* the same, with the third outcome: 500 and no generation call at all when
\* the pipeline initialisation had failed
AnsweredOnce(t) ==
    (ValidAsk(t) /\ Answered(t)) =>
        /\ task[t].pc = "done"
        /\ CallsInFlight(t) = {}
        /\ \/ /\ task[t].gen = "ok"
              /\ task[t].resp = [status |-> 200, body |-> [answer |-> task[t].answer]]
              /\ task[t].answer \in ModelTexts
              /\ issued[t] \in {2, 3}
           \/ /\ task[t].gen = "fail"
              /\ task[t].resp.status = 500
              /\ issued[t] \in {2, 3}
           \/ /\ task[t].gen = "none"
              /\ task[t].resp.status = 500
              /\ chainPromise[AgentOf(t)].st = "rejected"
              /\ issued[t] = 0

\* C22 (amended): every valid POST /ask is answered in the end, exactly once
\* (a response, once sent, never changes), and only after its single
\* generation call has completed (200 with the model's text unchanged, 500
\* when the call failed) or, with no generation call, 500 when the pipeline
\* initialisation failed.
C22_OneAnswer ==
    /\ [](\A t \in Reqs : AnsweredOnce(t))
    /\ [][\A t \in Reqs : Answered(t) => task'[t] = task[t]]_vars
    /\ \A t \in Reqs : ValidAsk(t) ~> Answered(t)

\* C22 witness: a valid ask answered 200 with the model's text after
\* embedding, query and generation.
C22_Witness ==
    \E t \in Reqs : /\ ValidAsk(t)
                    /\ task[t].resp.status = 200
                    /\ task[t].resp.body.answer = <<"a", " ">>
                    /\ issued[t] = 3

\* the messages a settled submission has added: the user message and the AI
\* answer, or one error message
messagesOf(sub) ==
    IF sub.res.error # <<>>
    THEN << ChatMessage("Error", errorText(sub.res.error)) >>
    ELSE << ChatMessage("user", sub.text), ChatMessage("AI", sub.res.answer) >>

RECURSIVE settledCount(_)
settledCount(subs) ==
    IF subs = <<>> THEN 0
    ELSE (IF Head(subs).pc = "done" THEN Len(messagesOf(Head(subs))) ELSE 0)
             + settledCount(Tail(subs))

\* C23: the conversation is append-only and in insertion order under any
\* interleaving of submissions: every handleNewMessage call has added exactly
\* one message, at the end, and none was changed, removed or lost; the
\* conversation only grows at its end; a submission that settles adds the
\* user message immediately followed by its AI answer when it succeeded and
\* only an error message when it failed.
C23_ConversationAppendOnly ==
    /\ [](client.pc = "chat" =>
            /\ Len(client.messages) = Len(client.calls)
            /\ \A k \in 1..Len(client.calls) :
                  /\ client.calls[k].count = k
                  /\ client.messages[k] = client.calls[k].message
            /\ Len(client.messages) = settledCount(client.submissions))
    /\ [][/\ Len(client.messages') >= Len(client.messages)
          /\ SubSeq(client.messages', 1, Len(client.messages)) = client.messages
          /\ \A s \in 1..Len(client.submissions) :
                (client.submissions[s].pc = "askApi"
                    /\ client.submissions'[s].pc = "done") =>
                  client.messages' =
                      client.messages \o messagesOf(client.submissions'[s])]_vars

\* C23 witness: two submissions overlapped (the second was sent before the
\* first settled), one failed and one succeeded, and the conversation holds
\* the error message followed by the user message and its answer.
C23_Witness ==
    /\ client.pc = "chat"
    /\ Len(client.submissions) = 2
    /\ client.submissions[1].pc = "done" /\ client.submissions[2].pc = "done"
    /\ client.submissions[2].messages = <<>>
    /\ client.submissions[1].res.error = <<>>
    /\ client.submissions[2].res.error # <<>>
    /\ Len(client.messages) = 3
    /\ client.messages[1].speaker = "Error"
    /\ client.messages[2] = ChatMessage("user", client.submissions[1].text)
    /\ client.messages[3].speaker = "AI"

\* the records that were not written by the default seeding
Knowledge == store \ Seeded

\* C24: default knowledge is written at agent construction only when the
\* store holds no knowledge: while the store holds a record that the
\* existence check would find, checkAndInitializeKnowledge has issued no
\* upsert and no default record is stored.
C24_SeedOnlyWhenEmpty ==
    Knowledge # {} =>
        /\ UpsertsInFlight(0) = {}
        /\ task[0].sent = <<>>
        /\ Seeded = {}

\* a step of the request t itself: its continuation after chainPromise, or
\* the completion of one of its own provider calls
OwnStep(t) ==
    AskResume(t) \/ RetrEmbedDone(t) \/ RetrQueryDone(t) \/ GenerateDone(t)

\* a step of checkAndInitializeKnowledge after the constructor started it
SeedStep == task[0].pc # "idle" /\ task'[0] # task[0]

\* C25: a failure in the default-knowledge check or seeding is contained: a
\* request that passed validation is answered 500 only because its own
\* generation failed or the pipeline initialisation was rejected; as long as
\* it is unanswered its own next step can be taken whatever the state of the
\* seeding (it does not wait for it); and no step of the check or the
\* seeding, failed or not, changes chainPromise, a request, or a request's
\* calls.
C25_SeedingContained ==
    /\ [](\A t \in Served :
            /\ task[t].resp.status = 500 =>
                  (task[t].gen = "fail" \/ chainPromise[AgentOf(t)].st = "rejected")
            /\ ~Answered(t) => ENABLED OwnStep(t))
    /\ [][SeedStep =>
            /\ chainPromise' = chainPromise
            /\ \A t \in Reqs :
                  /\ task'[t] = task[t]
                  /\ issued'[t] = issued[t]
                  /\ {c \in inflight' : c.by = t} = CallsInFlight(t)]_vars

\* C25 witness: the seeding failed (an embedding or the upsert was rejected)
\* and the request was answered 200.
C25_Witness ==
    \E t \in Reqs :
        /\ ValidAsk(t)
        /\ task[t].resp.status = 200
        /\ task[0].pc = "done"
        /\ task[0].failed # NoFailure
        /\ chainPromise[AgentOf(t)].st = "resolved"

\* C25 second case: the request was answered while the seeding was still
\* running.
C25_WitnessNoWait ==
    \E t \in Reqs :
        /\ ValidAsk(t)
        /\ task[t].resp.status = 200
        /\ task[0].pc \notin {"idle", "done"}

\* C26: handleNewMessage triggers a coaching refresh exactly when the
\* conversation, counted with the message it has just added, has more than 3
\* messages, and the conversation that refresh posts to /coaching contains
\* the added message.
C26_RefreshAfterThree ==
    client.pc = "chat" =>
        \A k \in 1..Len(client.calls) :
            LET call == client.calls[k]
            IN  /\ call.refreshed <=> call.count > 3
                /\ call.refreshed =>
                      \E j \in 1..Len(call.posted) : call.posted[j] = call.message

\* C27: in the minutes form, after any sequence of field edits, addItem and
\* removeItem operations the UI offers, every list section holds at least
\* one entry.
C27_NeverEmpty ==
    client.pc = "minutes" =>
        \A section \in ListSections : Len(client.minutesData[section]) >= 1

\* C28: addItem(section) appends exactly one empty entry to the section and
\* removeItem(section, i) removes exactly the entry at index i; every other
\* section and field is left unchanged, also when the updater is invoked
\* more than once for the update.
C28_OneEntry ==
    [][(client.pc = "minutes" /\ client'.ops # client.ops) =>
          LET section == client'.last.section
              index == client'.last.index
              before == client.minutesData
              after == client'.minutesData
          IN  /\ client'.last.op = "addItem" =>
                    after = [before EXCEPT ![section] = Append(@, EmptyEntry(section))]
              /\ client'.last.op = "removeItem" =>
                    after = [before EXCEPT ![section] =
                                [k \in 1..(Len(@) - 1) |->
                                    IF k <= index THEN @[k] ELSE @[k + 1]]]]_vars

\* the requests of the knowledge manager that have not settled
RequestsInFlight == {k \in 1..Len(client.requests) : client.requests[k].pc # "done"}

\* C29: in the knowledge manager loading is true exactly while a request
\* started by the component is in flight, and at most one is; a request is
\* started only by a step that finds loading false and sets it (no second
\* submission from either tab while it is true); and whatever the outcome,
\* loading is false again in the end.
C29_LoadingWhileInFlight ==
    /\ [](client.pc = "knowledge" =>
            /\ client.loading <=> RequestsInFlight # {}
            /\ Cardinality(RequestsInFlight) <= 1)
    /\ [][(client.pc = "knowledge" /\ Len(client'.requests) # Len(client.requests)) =>
            /\ ~client.loading
            /\ client'.loading
            /\ Len(client'.requests) = Len(client.requests) + 1]_vars
    /\ (client.loading ~> ~client.loading)

\* C29 witness: two requests were made, one from each tab; the first ended in
\* an HTTP error, the second in a network failure, and loading is false.
C29_Witness ==
    /\ client.pc = "knowledge"
    /\ Len(client.requests) = 2
    /\ client.requests[1].tab # client.requests[2].tab
    /\ client.requests[1].pc = "done" /\ client.requests[2].pc = "done"
    /\ client.requests[1].res.net /\ ~client.requests[1].res.ok
    /\ ~client.requests[2].res.net
    /\ ~client.loading

\* C29 second case: a request is in flight and loading is true.
C29_WitnessInFlight ==
    /\ client.pc = "knowledge"
    /\ client.loading
    /\ RequestsInFlight = {2}

\* a step in which a request of the knowledge manager settles
Settles(k) ==
    /\ k \in 1..Len(client.requests)
    /\ client.requests[k].pc # "done"
    /\ client'.requests[k].pc = "done"

\* C30: in the knowledge manager the success message and the error are never
\* both non-empty, and a submission clears the entered text and source only
\* when it succeeded: one that failed leaves them as typed.
C30_MessageOrError ==
    /\ [](client.pc = "knowledge" => ~(client.message # <<>> /\ client.error # <<>>))
    /\ [][client.pc = "knowledge" =>
            \A k \in 1..Len(client.requests) :
                (Settles(k) /\ ~client'.requests[k].res.ok) =>
                    client'.text = client.text /\ client'.source = client.source]_vars

====
